---- MODULE Spec2Model ----
(***************************************************************************)
(* A model of aws_cost_reporter.py: the loaders (load_json,                *)
(* load_cost_by_service, load_ec2, load_ebs, load_s3_sizes, load_misc,     *)
(* load_route53_eip), downsize_type, and the part of build_report that     *)
(* computes the rollup facts and the rightsizing rows (lines 238-316).     *)
(*                                                                         *)
(* Encoding.                                                               *)
(*  - A Python string is a sequence of lexemes (TLA+ strings that are      *)
(*    never split further); the separator "." is always its own lexeme,    *)
(*    so split, rstrip and replace are computed on the sequence.           *)
(*  - A JSON/Python value is a record tagged by its type in field t.       *)
(*  - A float is an exact fraction num/den with den > 0.                   *)
(*  - A DataFrame is [cols, rows]: the set of column names and the         *)
(*    sequence of rows, each a function from cols to values.               *)
(*  - A Python call either returns or raises: [exc, val].                  *)
(***************************************************************************)
EXTENDS Integers, Sequences, FiniteSets, TLC

VARIABLES
    pc,               \* position of the running call
    exc,              \* the exception that ended the call, or "none"
    dir,              \* the audit directory: file name -> file state
    cost_df,          \* build_report locals, named as in the source
    ec2_df,
    ec2m_df,
    ebs_df,
    s3sizes_df,
    misc,             \* (rds_df, lb_total, nat_total, tag_count)
    r53eip,
    rs_rows,
    idle_candidates,
    insights,         \* the scalar facts of lines 248-312
    it,               \* downsize_type: argument it
    steps,            \* downsize_type: argument steps
    ret               \* downsize_type: results of the calls made

vars == <<pc, exc, dir, cost_df, ec2_df, ec2m_df, ebs_df, s3sizes_df, misc,
          r53eip, rs_rows, idle_candidates, insights, it, steps, ret>>

(***************************************************************************)
(* Bounds of the model.                                                    *)
(***************************************************************************)
\* largest step count handed to downsize_type in SpecDownsize
MaxSteps == 17
\* number of datapoints of the longest CPU series
MaxSamples == 20

(***************************************************************************)
(* Python values.                                                          *)
(***************************************************************************)
None == [t |-> "None"]
NaN == [t |-> "nan"]
Str(s) == [t |-> "str", s |-> s]
Frac(n, d) == [t |-> "num", num |-> n, den |-> d]
Num(n) == Frac(n, 1)
\* a Python int where the code tells it from a float (isinstance(ttl, int));
\* bool is a subclass of int, True counting as 1 and False as 0
PyInt(n) == [t |-> "int", n |-> n]
PyBool(b) == [t |-> "bool", b |-> b]
List(xs) == [t |-> "list", items |-> xs]
Dict(f) == [t |-> "dict", f |-> f]
\* the empty dict {} (a function with an empty domain)
EmptyDict == Dict([k \in {} |-> None])

IsNone(v) == v.t = "None"
IsNaN(v) == v.t = "nan"
IsStr(v) == v.t = "str"
IsNum(v) == v.t = "num"
IsInt(v) == v.t = "int"
IsBool(v) == v.t = "bool"
IsList(v) == v.t = "list"
IsDict(v) == v.t = "dict"

\* a call's outcome
Return(v) == [exc |-> "none", val |-> v]
Raise(e) == [exc |-> e, val |-> None]
Raised(r) == r.exc # "none"

\* bool(v): the truth value Python gives a value (NaN is a non-zero float)
Truthy(v) ==
    CASE IsNone(v) -> FALSE
      [] IsNaN(v) -> TRUE
      [] IsStr(v) -> v.s # <<>>
      [] IsNum(v) -> v.num # 0
      [] IsInt(v) -> v.n # 0
      [] IsBool(v) -> v.b
      [] IsList(v) -> v.items # <<>>
      [] IsDict(v) -> DOMAIN v.f # {}

\* d.get(k, default) on a dict value
Get(d, k, default) == IF k \in DOMAIN d.f THEN d.f[k] ELSE default

\* pd.isna on a scalar
IsNA(v) == IsNone(v) \/ IsNaN(v)

\* a < b on fractions
FracLess(a, b) == a.num * b.den < b.num * a.den

\* str(v) / Series.astype(str): a string is itself, other values their repr
PyStr(v) ==
    CASE IsStr(v) -> v.s
      [] IsNone(v) -> <<"None">>
      [] IsNaN(v) -> <<"nan">>
      [] IsNum(v) -> <<"<number>">>
      [] IsInt(v) -> <<"<number>">>
      [] IsBool(v) -> IF v.b THEN <<"True">> ELSE <<"False">>
      [] IsList(v) -> <<"[...]">>
      [] IsDict(v) -> <<"{...}">>

(***************************************************************************)
(* Strings as lexeme sequences.                                            *)
(***************************************************************************)
Dot == "."

\* index of the first occurrence of lexeme c in s, 0 when absent
RECURSIVE IndexFrom(_, _, _)
IndexFrom(s, c, i) ==
    IF i > Len(s) THEN 0
    ELSE IF s[i] = c THEN i
    ELSE IndexFrom(s, c, i + 1)

IndexOf(s, c) == IndexFrom(s, c, 1)

\* s.rstrip(c): every trailing c is removed
RECURSIVE RStrip(_, _)
RStrip(s, c) ==
    IF s # <<>> /\ s[Len(s)] = c THEN RStrip(SubSeq(s, 1, Len(s) - 1), c) ELSE s

\* s.replace(c, ""): every occurrence of lexeme c is removed
RECURSIVE Remove(_, _)
Remove(s, c) ==
    IF s = <<>> THEN <<>>
    ELSE IF Head(s) = c THEN Remove(Tail(s), c)
    ELSE <<Head(s)>> \o Remove(Tail(s), c)

(***************************************************************************)
(* downsize_type (lines 228-236).                                          *)
(***************************************************************************)
size_order == <<"nano", "micro", "small", "medium", "large", "xlarge",
                "2xlarge", "3xlarge", "4xlarge", "6xlarge", "8xlarge",
                "12xlarge", "16xlarge", "24xlarge", "32xlarge", "metal">>

Max(a, b) == IF a >= b THEN a ELSE b

\* size_order[i] for a Python index i (0-based; a negative index counts from
\* the end; out of range raises IndexError)
PyIndex(seq, i) ==
    IF 0 <= i /\ i < Len(seq) THEN Return(seq[i + 1])
    ELSE IF i < 0 /\ -i <= Len(seq) THEN Return(seq[Len(seq) + i + 1])
    ELSE Raise("IndexError")

\* line 233: idx = max(0, size_order.index(sz) - steps), 0-based
ClampNoFloor(pos, n) == pos - n
ClampIdx(pos, n) == Max(0, pos - n)

\* line 234: f"{fam}.{size}"
FormatSizeOnly(fam, size) == <<size>>
FormatType(fam, size) == fam \o <<Dot>> \o <<size>>

\* it is a Python string here (build_report passes str(...)).
\* it.split(".", 1) yields one part when there is no "." (the unpacking then
\* raises ValueError, caught at line 235), else the text before the first "."
\* and everything after it.
downsize_type(t, n) ==
    LET d == IndexOf(t, Dot) IN
    IF d = 0 THEN t
    ELSE LET fam == SubSeq(t, 1, d - 1)
             sz == SubSeq(t, d + 1, Len(t))
             pos == IF Len(sz) = 1 THEN IndexOf(size_order, sz[1]) ELSE 0
         IN  IF pos = 0 THEN t
             ELSE LET r == PyIndex(size_order, ClampIdx(pos - 1, n))
                  IN  IF Raised(r) THEN t
                      ELSE FormatType(fam, r.val)

(***************************************************************************)
(* Files and load_json (lines 42-47).                                      *)
(* A file name missing from DOMAIN dir is a missing file.  A file that is  *)
(* there is unreadable, holds text json.load rejects, or holds the JSON    *)
(* document of a value.                                                    *)
(***************************************************************************)
Unreadable == [t |-> "unreadable"]
Unparseable == [t |-> "unparseable"]
Json(v) == [t |-> "json", v |-> v]

\* open() raises for a missing or unreadable file and json.load for bad
\* text; every exception is caught and None returned
load_json(d, path) ==
    IF path \notin DOMAIN d THEN None
    ELSE IF d[path].t # "json" THEN None
    ELSE d[path].v

\* audit_dir.glob(prefix*suffix): the names that start with the prefix lexeme
\* and end with the suffix lexeme
Glob(d, prefix, suffix) ==
    {p \in DOMAIN d : Len(p) >= 2 /\ p[1] = prefix /\ p[Len(p)] = suffix}

\* the orders in which glob may yield a set of paths
Orders(S) ==
    {o \in [1..Cardinality(S) -> S] : \A p \in S : \E i \in DOMAIN o : o[i] = p}

\* Path.stem: the name without its last suffix
Stem(p) == SubSeq(p, 1, Len(p) - 1)

(***************************************************************************)
(* Sequences of call outcomes.                                             *)
(***************************************************************************)
\* the outcome of a loop whose i-th iteration has outcome rs[i]: the first
\* exception raised, else the values in order
Collect(rs) ==
    IF \E i \in DOMAIN rs : Raised(rs[i])
    THEN LET i == CHOOSE k \in DOMAIN rs :
                     Raised(rs[k]) /\ \A j \in 1..(k - 1) : ~Raised(rs[j])
         IN  Raise(rs[i].exc)
    ELSE Return([i \in 1..Len(rs) |-> rs[i].val])

\* the concatenation of a sequence of sequences
RECURSIVE Concat(_)
Concat(ss) == IF ss = <<>> THEN <<>> ELSE Head(ss) \o Concat(Tail(ss))

(***************************************************************************)
(* pandas.DataFrame.                                                       *)
(***************************************************************************)
\* pd.DataFrame() and pd.DataFrame([]): no columns, no rows
EmptyDF == [cols |-> {}, rows |-> <<>>]

\* pd.DataFrame(rows) for a list of dicts: the columns are the keys seen,
\* a key a dict lacks is NaN in its row
DataFrame(rows) ==
    LET cols == UNION {DOMAIN rows[i] : i \in DOMAIN rows}
    IN  [cols |-> cols,
         rows |-> [i \in 1..Len(rows) |->
                     [c \in cols |-> IF c \in DOMAIN rows[i] THEN rows[i][c]
                                     ELSE NaN]]]

\* df.empty
IsEmpty(df) == df.rows = <<>> \/ df.cols = {}

\* insertion of row r into rows sorted descending by column c, after the
\* rows that compare equal
RECURSIVE InsertDesc(_, _, _)
InsertDesc(sorted, r, c) ==
    IF sorted = <<>> THEN <<r>>
    ELSE IF FracLess(Head(sorted)[c], r[c]) THEN <<r>> \o sorted
    ELSE <<Head(sorted)>> \o InsertDesc(Tail(sorted), r, c)

RECURSIVE SortDescRows(_, _)
SortDescRows(rows, c) ==
    IF rows = <<>> THEN <<>>
    ELSE InsertDesc(SortDescRows(SubSeq(rows, 1, Len(rows) - 1), c),
                    rows[Len(rows)], c)

\* df.sort_values(c, ascending=False): KeyError when df has no column c
sort_values(df, c) ==
    IF c \notin df.cols THEN Raise("KeyError")
    ELSE Return([df EXCEPT !.rows = SortDescRows(df.rows, c)])

\* left.merge(right, on=key, how="left"): KeyError when either frame lacks
\* the key column; every left row is kept, once per matching right row, and
\* gets NaN in the right columns when nothing matches
MergeRow(l, right, key) ==
    LET m == SelectSeq(right.rows, LAMBDA r : r[key] = l[key])
        join(r) == [c \in DOMAIN l \cup right.cols |->
                      IF c \in DOMAIN l THEN l[c] ELSE r[c]]
    IN  IF m = <<>>
        THEN <<[c \in DOMAIN l \cup right.cols |->
                  IF c \in DOMAIN l THEN l[c] ELSE NaN]>>
        ELSE [i \in 1..Len(m) |-> join(m[i])]

merge_left(left, right, key) ==
    IF key \notin left.cols \/ key \notin right.cols THEN Raise("KeyError")
    ELSE Return([cols |-> left.cols \cup right.cols,
                 rows |-> Concat([i \in 1..Len(left.rows) |->
                                    MergeRow(left.rows[i], right, key)])])

(***************************************************************************)
(* float() on a string.  A numeral is a lexeme of NumLexemes; the strings  *)
(* float accepts are n, n.m and nEk / nek.                                 *)
(***************************************************************************)
NumLexemes == {"0", "1", "3", "12"}
LexVal(x) == CASE x = "0" -> 0 [] x = "1" -> 1 [] x = "3" -> 3 [] x = "12" -> 12

RECURSIVE Pow10(_)
Pow10(k) == IF k = 0 THEN 1 ELSE 10 * Pow10(k - 1)

ParseFloat(s) ==
    IF Len(s) = 1 /\ s[1] \in NumLexemes THEN Return(Num(LexVal(s[1])))
    ELSE IF Len(s) = 3 /\ s[1] \in NumLexemes /\ s[3] \in NumLexemes
                       /\ s[2] = Dot /\ LexVal(s[3]) < 10
         THEN Return(Frac(10 * LexVal(s[1]) + LexVal(s[3]), 10))
    ELSE IF Len(s) = 3 /\ s[1] \in NumLexemes /\ s[3] \in NumLexemes
                       /\ s[2] \in {"E", "e"}
         THEN Return(Num(LexVal(s[1]) * Pow10(LexVal(s[3]))))
    ELSE Raise("ValueError")

\* float(v): a number is itself, a string is parsed, anything else TypeError
PyFloat(v) ==
    CASE IsNum(v) -> Return(v)
      [] IsStr(v) -> ParseFloat(v.s)
      [] OTHER -> Raise("TypeError")

\* lines 58-64: float(amt), else float(amt.replace("E","e")), else 0.0
AmountOf(amt) ==
    LET first == PyFloat(amt) IN
    IF ~Raised(first) THEN first.val
    ELSE IF ~IsStr(amt) THEN Num(0)
    ELSE LET second == ParseFloat([i \in 1..Len(amt.s) |->
                                     IF amt.s[i] = "E" THEN "e" ELSE amt.s[i]])
         IN  IF Raised(second) THEN Num(0) ELSE second.val

(***************************************************************************)
(* load_cost_by_service (lines 49-66).                                     *)
(***************************************************************************)
\* x[0] needs a non-empty list
First(v) ==
    IF ~IsList(v) THEN Raise("TypeError")
    ELSE IF v.items = <<>> THEN Raise("IndexError")
    ELSE Return(v.items[1])

\* lines 56-65 for one group g
CostRow(g) ==
    IF ~IsDict(g) THEN Raise("AttributeError")
    ELSE LET keys == First(Get(g, "Keys", List(<<Str(<<"Unknown">>)>>)))
             metrics == Get(g, "Metrics", EmptyDict)
             ubc == IF IsDict(metrics) THEN Get(metrics, "UnblendedCost", EmptyDict)
                    ELSE None
             got == IF IsDict(ubc) THEN Get(ubc, "Amount", Str(<<"0">>)) ELSE None
             amt == IF Truthy(got) THEN got ELSE Str(<<"0">>)
         IN  IF Raised(keys) THEN keys
             ELSE IF ~IsDict(metrics) \/ ~IsDict(ubc) THEN Raise("AttributeError")
             ELSE Return([Service |-> keys.val, CostUSD |-> AmountOf(amt)])

\* lines 53-65: the rows of the groups of the first result
CostRows(data) ==
    IF ~Truthy(data) THEN Return(<<>>)
    ELSE IF ~IsDict(data) THEN Raise("AttributeError")
    ELSE LET rbt == First(Get(data, "ResultsByTime", List(<<EmptyDict>>))) IN
         IF Raised(rbt) THEN rbt
         ELSE IF ~IsDict(rbt.val) THEN Raise("AttributeError")
         ELSE LET groups == Get(rbt.val, "Groups", List(<<>>)) IN
              IF ~IsList(groups) THEN Raise("TypeError")
              ELSE Collect([i \in 1..Len(groups.items) |-> CostRow(groups.items[i])])

F_cost == <<"cost-by-service", ".json">>

load_cost_by_service(d) ==
    LET rows == CostRows(load_json(d, F_cost)) IN
    IF Raised(rows) THEN rows
    ELSE sort_values(DataFrame(rows.val), "CostUSD")

(***************************************************************************)
(* Arithmetic on fractions, numpy.mean and numpy.percentile.               *)
(***************************************************************************)
FracAdd(a, b) == Frac(a.num * b.den + b.num * a.den, a.den * b.den)
FracSub(a, b) == Frac(a.num * b.den - b.num * a.den, a.den * b.den)
\* a * k / d for integers k, d > 0
FracScale(a, k, d) == Frac(a.num * k, a.den * d)

RECURSIVE FracSum(_)
FracSum(xs) == IF xs = <<>> THEN Num(0) ELSE FracAdd(Head(xs), FracSum(Tail(xs)))

\* np.mean(xs) for a non-empty list of numbers
Mean(xs) == FracScale(FracSum(xs), 1, Len(xs))

RECURSIVE InsertAsc(_, _)
InsertAsc(sorted, x) ==
    IF sorted = <<>> THEN <<x>>
    ELSE IF FracLess(x, Head(sorted)) THEN <<x>> \o sorted
    ELSE <<Head(sorted)>> \o InsertAsc(Tail(sorted), x)

RECURSIVE SortAsc(_)
SortAsc(xs) ==
    IF xs = <<>> THEN <<>> ELSE InsertAsc(SortAsc(Tail(xs)), Head(xs))

\* np.percentile(xs, 95), linear interpolation: with the values sorted and
\* h = 0.95 * (n - 1), the value at floor(h) plus the fractional part of h
\* times the step to the next value
Percentile95(xs) ==
    LET srt == SortAsc(xs)
        n == Len(xs)
        lo == (95 * (n - 1)) \div 100
        fr == (95 * (n - 1)) % 100
        hi == IF lo + 2 <= n THEN lo + 2 ELSE n
    IN  FracAdd(srt[lo + 1], FracScale(FracSub(srt[hi], srt[lo + 1]), fr, 100))

(***************************************************************************)
(* load_ec2 (lines 68-110).                                                *)
(***************************************************************************)
F_ec2 == <<"ec2-instances", ".json">>

\* lines 81-84: one level of nesting is flattened
Flatten(arr) ==
    Concat([i \in 1..Len(arr) |->
              IF IsList(arr[i]) THEN arr[i].items ELSE <<arr[i]>>])

\* line 77: s.get("Name") if isinstance(s, dict) else s
UnwrapState(s) == IF IsDict(s) THEN Get(s, "Name", None) ELSE s

\* lines 74-77: a list whose first element is a dict becomes a frame of its
\* dicts; the State column is unwrapped when the first row's State is a dict
Ec2Modern(items) ==
    IF \E i \in DOMAIN items : ~IsDict(items[i]) THEN Raise("AttributeError")
    ELSE LET ec2 == DataFrame([i \in 1..Len(items) |-> items[i].f]) IN
         IF "State" \in ec2.cols /\ IsDict(ec2.rows[1]["State"])
         THEN Return([ec2 EXCEPT !.rows =
                  [i \in 1..Len(ec2.rows) |->
                     [ec2.rows[i] EXCEPT !["State"] = UnwrapState(@)]]])
         ELSE Return(ec2)

\* lines 79-91: positional records with at least 5 fields
Ec2MinFields == 5
Ec2Legacy(data) ==
    LET arr == IF IsList(data) THEN data.items ELSE <<>>
        keep(rec) == IsList(rec) /\ Len(rec.items) >= Ec2MinFields
        recs == SelectSeq(Flatten(arr), keep)
    IN  DataFrame([i \in 1..Len(recs) |->
            [InstanceId |-> recs[i].items[1], InstanceType |-> recs[i].items[2],
             State |-> recs[i].items[3], AZ |-> recs[i].items[4],
             LaunchTime |-> recs[i].items[5]]])

\* lines 98-107 for one sample file pth holding the dict d
CpuRow(pth, d) ==
    LET dps == Get(d, "Datapoints", List(<<>>))
        has(dp) == "Average" \in DOMAIN dp.f
        with == SelectSeq(dps.items, has)
        avgs == [i \in 1..Len(with) |-> with[i].f["Average"]]
        inst == Remove(Stem(pth), "cpu_")
    IN  IF avgs # <<>>
        THEN [InstanceId |-> Str(inst), CPUAvg7d |-> Mean(avgs),
              CPU95p7d |-> IF Len(avgs) > 1 THEN Percentile95(avgs) ELSE Mean(avgs),
              Samples |-> Num(Len(avgs))]
        ELSE [InstanceId |-> Str(inst), CPUAvg7d |-> None, CPU95p7d |-> None,
              Samples |-> Num(0)]

\* lines 93-108: one row per sample file that loads to a truthy value, in
\* glob order; d.get on a value that is no dict raises
CpuFrame(d, order) ==
    LET loaded == SelectSeq(order, LAMBDA pth : Truthy(load_json(d, pth))) IN
    IF \E i \in DOMAIN loaded : ~IsDict(load_json(d, loaded[i]))
    THEN Raise("AttributeError")
    ELSE Return(DataFrame([i \in 1..Len(loaded) |->
                             CpuRow(loaded[i], load_json(d, loaded[i]))]))

\* line 109: the left join on InstanceId, skipped for an empty inventory
MergeCpu(ec2, cpu) ==
    IF ~IsEmpty(ec2) THEN merge_left(ec2, cpu, "InstanceId") ELSE Return(EmptyDF)

\* order: the order in which glob yields the cpu_*.json paths
load_ec2(d, order) ==
    LET data == load_json(d, F_ec2) IN
    IF ~Truthy(data) THEN Return([ec2 |-> EmptyDF, ec2m |-> EmptyDF])
    ELSE LET ec2 == IF IsList(data) /\ data.items # <<>> /\ IsDict(data.items[1])
                    THEN Ec2Modern(data.items)
                    ELSE Return(Ec2Legacy(data))
             cpu == CpuFrame(d, order)
         IN  IF Raised(ec2) THEN ec2
             ELSE IF Raised(cpu) THEN cpu
             ELSE LET ec2m == MergeCpu(ec2.val, cpu.val) IN
                  IF Raised(ec2m) THEN ec2m
                  ELSE Return([ec2 |-> ec2.val, ec2m |-> ec2m.val])

(***************************************************************************)
(* load_ebs (lines 112-129).                                               *)
(***************************************************************************)
F_ebs == <<"ebs-volumes", ".json">>

\* pd.DataFrame(data) for a list of dicts
FrameOfDicts(items) ==
    IF \E i \in DOMAIN items : ~IsDict(items[i]) THEN Raise("AttributeError")
    ELSE Return(DataFrame([i \in 1..Len(items) |-> items[i].f]))

EbsMinFields == 7
EbsLegacy(data) ==
    LET arr == IF IsList(data) THEN data.items ELSE <<>>
        keep(rec) == IsList(rec) /\ Len(rec.items) >= EbsMinFields
        recs == SelectSeq(Flatten(arr), keep)
    IN  DataFrame([i \in 1..Len(recs) |->
            [VolumeId |-> recs[i].items[1], Size |-> recs[i].items[2],
             VolumeType |-> recs[i].items[3], State |-> recs[i].items[4],
             InstanceId |-> recs[i].items[5], Encrypted |-> recs[i].items[6],
             CreateTime |-> recs[i].items[7]]])

load_ebs(d) ==
    LET data == load_json(d, F_ebs) IN
    IF ~Truthy(data) THEN Return(EmptyDF)
    ELSE IF IsList(data) /\ data.items # <<>> /\ IsDict(data.items[1])
    THEN FrameOfDicts(data.items)
    ELSE Return(EbsLegacy(data))

(***************************************************************************)
(* load_s3_sizes (lines 131-141).                                          *)
(***************************************************************************)
RECURSIVE GCD(_, _)
GCD(a, b) == IF b = 0 THEN a ELSE GCD(b, a % b)

\* a / k for an integer k > 0, the common factor of a.num and k cancelled
FracDiv(a, k) ==
    LET g == IF a.num = 0 THEN k ELSE GCD(a.num, k)
    IN  Frac(a.num \div g, a.den * (k \div g))

KiB == 1024

\* lines 136-140 for one size file p holding the dict d
S3Row(p, d) ==
    LET dps == Get(d, "Datapoints", List(<<>>))
        has(dp) == "Average" \in DOMAIN dp.f
        with == SelectSeq(dps.items, has)
        avgs == [i \in 1..Len(with) |-> with[i].f["Average"]]
        avg_bytes == IF avgs # <<>> THEN Mean(avgs) ELSE Num(0)
        bucket == Remove(Remove(p, "s3-"), "-size.json")
    IN  [Bucket |-> Str(bucket),
         AvgGiB3d |-> FracDiv(FracDiv(FracDiv(avg_bytes, KiB), KiB), KiB)]

\* order: the order in which glob yields the s3-*-size.json paths
load_s3_sizes(d, order) ==
    LET loaded == SelectSeq(order, LAMBDA p : Truthy(load_json(d, p))) IN
    IF \E i \in DOMAIN loaded : ~IsDict(load_json(d, loaded[i]))
    THEN Raise("AttributeError")
    ELSE sort_values(DataFrame([i \in 1..Len(loaded) |->
                                  S3Row(loaded[i], load_json(d, loaded[i]))]),
                     "AvgGiB3d")

(***************************************************************************)
(* load_misc (lines 143-161).                                              *)
(***************************************************************************)
F_rds == <<"rds-instances", ".json">>
F_lb == <<"loadbalancers", ".json">>
F_nat == <<"nat-gateways", ".json">>
F_tags == <<"tags", ".json">>

\* len(v)
PyLen(v) ==
    CASE IsList(v) -> Return(Len(v.items))
      [] IsStr(v) -> Return(Len(v.s))
      [] IsDict(v) -> Return(Cardinality(DOMAIN v.f))
      [] OTHER -> Raise("TypeError")

\* len((load_json(path) or {}).get(key, []))
CountOf(d, path, key) ==
    LET got == load_json(d, path)
        obj == IF Truthy(got) THEN got ELSE EmptyDict
    IN  IF ~IsDict(obj) THEN Raise("AttributeError")
        ELSE PyLen(Get(obj, key, List(<<>>)))

RdsMinFields == 3
\* lines 144-154
RdsFrame(rds) ==
    IF IsList(rds) /\ rds.items # <<>> /\ IsDict(rds.items[1])
    THEN FrameOfDicts(rds.items)
    ELSE IF IsList(rds)
    THEN LET keep(rec) == IsList(rec) /\ Len(rec.items) >= RdsMinFields
             recs == SelectSeq(rds.items, keep)
         IN  Return(DataFrame([i \in 1..Len(recs) |->
                 [DBInstanceIdentifier |-> recs[i].items[1],
                  DBInstanceClass |-> recs[i].items[3]]]))
    ELSE Return(EmptyDF)

load_misc(d) ==
    LET rds_df == RdsFrame(load_json(d, F_rds))
        lb == CountOf(d, F_lb, "LoadBalancers")
        nat == CountOf(d, F_nat, "NatGateways")
        tag == CountOf(d, F_tags, "ResourceTagMappingList")
    IN  IF Raised(rds_df) THEN rds_df
        ELSE IF Raised(lb) THEN lb
        ELSE IF Raised(nat) THEN nat
        ELSE IF Raised(tag) THEN tag
        ELSE Return([rds_df |-> rds_df.val, lb_total |-> lb.val,
                     nat_total |-> nat.val, tag_count |-> tag.val])

(***************************************************************************)
(* load_route53_eip (lines 163-226).                                       *)
(***************************************************************************)
F_r53cost == <<"route53-cost", ".json">>
F_eipcost == <<"eip-cost", ".json">>
F_zones == <<"route53-zones", ".json">>
F_health == <<"route53-health-checks", ".json">>
F_eips == <<"elastic-ips", ".json">>

\* obj[key] on a dict value
Item(obj, key) ==
    IF ~IsDict(obj) THEN Raise("TypeError")
    ELSE IF key \notin DOMAIN obj.f THEN Raise("KeyError")
    ELSE Return(obj.f[key])

\* lines 171-175: the amount at ResultsByTime[0].Total.UnblendedCost.Amount as
\* a float, 0.0 when any step fails
cost_amt(obj) ==
    LET rbt == Item(obj, "ResultsByTime")
        r0 == IF Raised(rbt) THEN rbt ELSE First(rbt.val)
        tot == IF Raised(r0) THEN r0 ELSE Item(r0.val, "Total")
        ubc == IF Raised(tot) THEN tot ELSE Item(tot.val, "UnblendedCost")
        amt == IF Raised(ubc) THEN ubc ELSE Item(ubc.val, "Amount")
        val == IF Raised(amt) THEN amt ELSE PyFloat(amt.val)
    IN  IF Raised(val) THEN Num(0) ELSE val.val

\* lines 177-178
CostUsd(d, path) ==
    LET obj == load_json(d, path) IN IF Truthy(obj) THEN cost_amt(obj) ELSE Num(0)

\* lines 184-187: the addresses with none of the three attachment keys
Unattached(e) ==
    /\ "InstanceId" \notin DOMAIN e.f
    /\ "NetworkInterfaceId" \notin DOMAIN e.f
    /\ "AssociationId" \notin DOMAIN e.f

EipCounts(d) ==
    LET got == load_json(d, F_eips)
        obj == IF Truthy(got) THEN got ELSE EmptyDict
    IN  IF ~IsDict(obj) THEN Raise("AttributeError")
        ELSE LET eip_list == Get(obj, "Addresses", List(<<>>)) IN
             IF ~IsList(eip_list) \/ \E i \in DOMAIN eip_list.items :
                                        ~IsDict(eip_list.items[i])
             THEN Raise("TypeError")
             ELSE Return([eips |-> Len(eip_list.items),
                          eips_unattached |->
                              Len(SelectSeq(eip_list.items, Unattached))])

\* str.lower() on the lexemes of DNS names
LowerLex(x) ==
    CASE x = "LB" -> "lb"
      [] x = "EXAMPLE" -> "example"
      [] x = "COM" -> "com"
      [] OTHER -> x
Lower(s) == [i \in 1..Len(s) |-> LowerLex(s[i])]

\* the lexemes of DNS names by the code point of their first character,
\* which is the order Python compares strings in (no two start alike)
LexOrder == <<".", "COM", "EXAMPLE", "LB", "api", "com", "example", "lb", "www">>
RECURSIVE StrLess(_, _)
StrLess(a, b) ==
    IF a = <<>> THEN b # <<>>
    ELSE IF b = <<>> THEN FALSE
    ELSE IF Head(a) = Head(b) THEN StrLess(Tail(a), Tail(b))
    ELSE IndexOf(LexOrder, Head(a)) < IndexOf(LexOrder, Head(b))

\* sorted(S) for a set of strings
RECURSIVE Sorted(_)
Sorted(S) ==
    IF S = {} THEN <<>>
    ELSE LET m == CHOOSE x \in S : \A y \in S \ {x} : StrLess(x, y)
         IN  <<m>> \o Sorted(S \ {m})

\* sep.join(xs)
RECURSIVE Join(_, _)
Join(sep, xs) ==
    IF xs = <<>> THEN <<>>
    ELSE IF Len(xs) = 1 THEN xs[1]
    ELSE xs[1] \o <<sep>> \o Join(sep, Tail(xs))

LowTtlLimit == 300
LowTtlTypes == {<<"A">>, <<"AAAA">>, <<"CNAME">>}

\* isinstance(v, int): an int or a bool
IsInstInt(v) == IsInt(v) \/ IsBool(v)
IntVal(v) == IF IsBool(v) THEN (IF v.b THEN 1 ELSE 0) ELSE v.n

\* line 201
IsLowTtlInclusive(rtype, alias, ttl) ==
    /\ IsStr(rtype) /\ rtype.s \in LowTtlTypes
    /\ ~Truthy(alias)
    /\ IsInstInt(ttl)
    /\ IntVal(ttl) <= LowTtlLimit
IsLowTtl(rtype, alias, ttl) ==
    /\ IsStr(rtype) /\ rtype.s \in LowTtlTypes
    /\ ~Truthy(alias)
    /\ IsInstInt(ttl)
    /\ IntVal(ttl) < LowTtlLimit

\* line 205: the alias DNS name without trailing dots, in lower case
Normalize(s) == Lower(RStrip(s, Dot))

\* lines 208-211: one binding per record value that is truthy
ValueBinds(rr, name) ==
    LET recs == Get(rr, "ResourceRecords", List(<<>>)) IN
    IF ~IsList(recs) \/ \E i \in DOMAIN recs.items : ~IsDict(recs.items[i])
    THEN Raise("AttributeError")
    ELSE LET vals == [i \in 1..Len(recs.items) |-> Get(recs.items[i], "Value", None)]
             kept == SelectSeq(vals, Truthy)
         IN  Return([i \in 1..Len(kept) |-> [target |-> kept[i], name |-> name]])

\* lines 203-211: the bindings of one record set (type A only).  An alias
\* target is absent, null or a dict in the inputs.
Binds(rr, rtype, name, alias) ==
    IF rtype # Str(<<"A">>) THEN Return(<<>>)
    ELSE IF Truthy(alias) /\ ~IsDict(alias) THEN Raise("TypeError")
    ELSE IF Truthy(alias) /\ "DNSName" \in DOMAIN alias.f
    THEN IF ~IsStr(alias.f["DNSName"]) THEN Raise("AttributeError")
         ELSE Return(<<[target |-> Str(Normalize(alias.f["DNSName"].s)),
                        name |-> name]>>)
    ELSE ValueBinds(rr, name)

\* lines 197-211 for one record set: its low-TTL rows and its bindings
RrStep(zone_id, rr) ==
    IF ~IsDict(rr) THEN Raise("AttributeError")
    ELSE LET rtype == Get(rr, "Type", Str(<<>>))
             name == Get(rr, "Name", Str(<<>>))
             alias == Get(rr, "AliasTarget", None)
             ttl == Get(rr, "TTL", None)
             b == Binds(rr, rtype, name, alias)
         IN  IF Raised(b) THEN b
             ELSE Return([low |-> IF IsLowTtl(rtype, alias, ttl)
                                  THEN <<[ZoneId |-> Str(zone_id), Name |-> name,
                                          Type |-> rtype, TTL |-> ttl]>>
                                  ELSE <<>>,
                          binds |-> b.val])

\* the distinct elements of a sequence in order of first occurrence (the key
\* order of a dict filled with setdefault)
RECURSIVE Distinct(_)
Distinct(xs) ==
    IF xs = <<>> THEN <<>>
    ELSE LET init == Distinct(SubSeq(xs, 1, Len(xs) - 1))
             x == xs[Len(xs)]
         IN  IF \E i \in DOMAIN init : init[i] = x THEN init ELSE init \o <<x>>

\* lines 212-214: a finding per target with more than one distinct name
DupesManyBindings(zone_id, binds) ==
    LET targets == Distinct([i \in 1..Len(binds) |-> binds[i].target])
        names(tg) == {binds[i].name.s : i \in {j \in DOMAIN binds : binds[j].target = tg}}
        count(tg) == Len(SelectSeq(binds, LAMBDA b : b.target = tg))
        dup == SelectSeq(targets, LAMBDA tg : count(tg) > 1)
    IN  [i \in 1..Len(dup) |->
           [ZoneId |-> Str(zone_id), Target |-> dup[i],
            Names |-> Str(Join(", ", Sorted(names(dup[i]))))]]
DupesOf(zone_id, binds) ==
    LET targets == Distinct([i \in 1..Len(binds) |-> binds[i].target])
        names(tg) == {binds[i].name.s : i \in {j \in DOMAIN binds : binds[j].target = tg}}
        dup == SelectSeq(targets, LAMBDA tg : Cardinality(names(tg)) > 1)
    IN  [i \in 1..Len(dup) |->
           [ZoneId |-> Str(zone_id), Target |-> dup[i],
            Names |-> Str(Join(", ", Sorted(names(dup[i]))))]]

\* lines 192-214 for one record-set file p
ZoneStep(d, p) ==
    LET got == load_json(d, p)
        obj == IF Truthy(got) THEN got ELSE EmptyDict
        zone_id == Remove(Stem(p), "route53-records-")
    IN  IF ~IsDict(obj) THEN Raise("AttributeError")
        ELSE LET rrsets == Get(obj, "ResourceRecordSets", List(<<>>)) IN
             IF ~IsList(rrsets) THEN Raise("TypeError")
             ELSE LET rs == Collect([i \in 1..Len(rrsets.items) |->
                                       RrStep(zone_id, rrsets.items[i])])
                  IN  IF Raised(rs) THEN rs
                      ELSE Return(
                        [low |-> Concat([i \in 1..Len(rs.val) |-> rs.val[i].low]),
                         dupes |-> DupesOf(zone_id,
                             Concat([i \in 1..Len(rs.val) |-> rs.val[i].binds]))])

\* order: the order in which glob yields the route53-records-*.json paths
load_route53_eip(d, order) ==
    LET zones == CountOf(d, F_zones, "HostedZones")
        health == CountOf(d, F_health, "HealthChecks")
        eips == EipCounts(d)
        zs == Collect([i \in 1..Len(order) |-> ZoneStep(d, order[i])])
    IN  IF Raised(zones) THEN zones
        ELSE IF Raised(health) THEN health
        ELSE IF Raised(eips) THEN eips
        ELSE IF Raised(zs) THEN zs
        ELSE Return(
          [r53_cost |-> CostUsd(d, F_r53cost),
           eip_cost |-> CostUsd(d, F_eipcost),
           zones |-> zones.val,
           health_checks |-> health.val,
           eips |-> eips.val.eips,
           eips_unattached |-> eips.val.eips_unattached,
           dupes |-> DataFrame(Concat([i \in 1..Len(zs.val) |-> zs.val[i].dupes])),
           low_ttl |-> DataFrame(Concat([i \in 1..Len(zs.val) |-> zs.val[i].low]))])

(***************************************************************************)
(* build_report, lines 247-316: the rightsizing rows and the rollup facts. *)
(* The reason texts are the source's with its en dash written "-" and its  *)
(* greater-or-equal sign written ">=".                                     *)
(***************************************************************************)
MinSamples == 12
IdleCpu == 5
LowCpu == 20

InsufficientReason == "Insufficient metrics (retain)"
Downsize2Reason == "CPU<5% (downsize 2)"
Downsize1Reason == "CPU 5-20% (downsize 1)"
RetainReason == "CPU>=20% (retain)"

\* lines 264-272: the recommendation for current type cur, average cpu and
\* sample count samples; idle is what the branch adds to idle_candidates
RecommendNoSampleCheck(cur, cpu, samples) ==
    IF IsNA(cpu)
    THEN [rec |-> cur, reason |-> InsufficientReason, idle |-> 0]
    ELSE IF FracLess(cpu, Num(IdleCpu))
    THEN [rec |-> downsize_type(cur, 2), reason |-> Downsize2Reason, idle |-> 1]
    ELSE IF FracLess(cpu, Num(LowCpu))
    THEN [rec |-> downsize_type(cur, 1), reason |-> Downsize1Reason, idle |-> 0]
    ELSE [rec |-> cur, reason |-> RetainReason, idle |-> 0]
RecommendInclusive(cur, cpu, samples) ==
    IF IsNA(cpu) \/ samples < MinSamples
    THEN [rec |-> cur, reason |-> InsufficientReason, idle |-> 0]
    ELSE IF ~FracLess(Num(IdleCpu), cpu)
    THEN [rec |-> downsize_type(cur, 2), reason |-> Downsize2Reason, idle |-> 1]
    ELSE IF ~FracLess(Num(LowCpu), cpu)
    THEN [rec |-> downsize_type(cur, 1), reason |-> Downsize1Reason, idle |-> 0]
    ELSE [rec |-> cur, reason |-> RetainReason, idle |-> 0]
RecommendIdleBelowLow(cur, cpu, samples) ==
    IF IsNA(cpu) \/ samples < MinSamples
    THEN [rec |-> cur, reason |-> InsufficientReason, idle |-> 0]
    ELSE IF FracLess(cpu, Num(IdleCpu))
    THEN [rec |-> downsize_type(cur, 2), reason |-> Downsize2Reason, idle |-> 1]
    ELSE IF FracLess(cpu, Num(LowCpu))
    THEN [rec |-> downsize_type(cur, 1), reason |-> Downsize1Reason, idle |-> 1]
    ELSE [rec |-> cur, reason |-> RetainReason, idle |-> 0]
Recommend(cur, cpu, samples) ==
    IF IsNA(cpu) \/ samples < MinSamples
    THEN [rec |-> cur, reason |-> InsufficientReason, idle |-> 0]
    ELSE IF FracLess(cpu, Num(IdleCpu))
    THEN [rec |-> downsize_type(cur, 2), reason |-> Downsize2Reason, idle |-> 1]
    ELSE IF FracLess(cpu, Num(LowCpu))
    THEN [rec |-> downsize_type(cur, 1), reason |-> Downsize1Reason, idle |-> 0]
    ELSE [rec |-> cur, reason |-> RetainReason, idle |-> 0]

\* Series.get(c, default) on a row
RowGet(r, c, default) == IF c \in DOMAIN r THEN r[c] ELSE default

\* int(v): a float is truncated, NaN raises ValueError
PyIntOf(v) ==
    CASE IsNum(v) -> Return(v.num \div v.den)
      [] IsInt(v) -> Return(v.n)
      [] IsBool(v) -> Return(IF v.b THEN 1 ELSE 0)
      [] IsNaN(v) -> Raise("ValueError")
      [] OTHER -> Raise("TypeError")

\* None if pd.isna(v) else float(v)
FloatOrNone(v) == IF IsNA(v) THEN None ELSE v

\* lines 260-281 for one row r of the enriched table
RsRow(r) ==
    LET cur == PyStr(RowGet(r, "InstanceType", Str(<<>>)))
        cpu == RowGet(r, "CPUAvg7d", None)
        p95 == RowGet(r, "CPU95p7d", None)
        got == RowGet(r, "Samples", None)
        samples == PyIntOf(IF Truthy(got) THEN got ELSE Num(0))
    IN  IF Raised(samples) THEN samples
        ELSE LET d == Recommend(cur, cpu, samples.val) IN
             Return([InstanceId |-> RowGet(r, "InstanceId", Str(<<>>)),
                     CurrentType |-> cur,
                     CPUAvg7d |-> FloatOrNone(cpu),
                     CPU95p7d |-> FloatOrNone(p95),
                     Samples |-> samples.val,
                     RecommendedType |-> d.rec,
                     Reason |-> d.reason,
                     idle |-> d.idle])

\* df[df["State"].astype(str) == "running"], every row when there is no
\* State column (line 258)
IsRunning(r) == PyStr(r["State"]) = <<"running">>
RunningRows(df) ==
    IF "State" \in df.cols THEN SelectSeq(df.rows, IsRunning) ELSE df.rows

RECURSIVE SumIdle(_)
SumIdle(rows) == IF rows = <<>> THEN 0 ELSE Head(rows).idle + SumIdle(Tail(rows))

\* lines 255-284: the rows and the idle-candidate count
Rightsizing(ec2m) ==
    IF IsEmpty(ec2m) THEN Return([rs_rows |-> <<>>, idle_candidates |-> 0])
    ELSE LET run == RunningRows(ec2m)
             rs == Collect([i \in 1..Len(run) |-> RsRow(run[i])])
         IN  IF Raised(rs) THEN rs
             ELSE Return([rs_rows |-> [i \in 1..Len(rs.val) |->
                              [c \in DOMAIN rs.val[i] \ {"idle"} |-> rs.val[i][c]]],
                          idle_candidates |-> SumIdle(rs.val)])

NA == <<"N/A">>

\* lines 248-252, 286-312
Insights(cost, ec2, ebs, s3, r53) ==
    [top_service |-> IF ~IsEmpty(cost) THEN cost.rows[1]["Service"] ELSE Str(NA),
     top_cost |-> IF ~IsEmpty(cost) THEN cost.rows[1]["CostUSD"] ELSE Num(0),
     ec2_total |-> IF ~IsEmpty(ec2) THEN Len(ec2.rows) ELSE 0,
     ec2_running |-> IF ~IsEmpty(ec2) /\ "State" \in ec2.cols
                     THEN Len(SelectSeq(ec2.rows, IsRunning)) ELSE 0,
     ebs_unattached |->
         IF ~IsEmpty(ebs) /\ "InstanceId" \in ebs.cols
         THEN Len(SelectSeq(ebs.rows, LAMBDA r :
                    IsNA(r["InstanceId"]) \/ PyStr(r["InstanceId"]) = <<>>))
         ELSE 0,
     ebs_gp2 |->
         IF ~IsEmpty(ebs) /\ "VolumeType" \in ebs.cols
         THEN Len(SelectSeq(ebs.rows, LAMBDA r : PyStr(r["VolumeType"]) = <<"gp2">>))
         ELSE 0,
     largest_bucket |->
         IF ~IsEmpty(s3) THEN SortDescRows(s3.rows, "AvgGiB3d")[1]["Bucket"]
         ELSE Str(NA),
     largest_gib |->
         IF ~IsEmpty(s3) THEN SortDescRows(s3.rows, "AvgGiB3d")[1]["AvgGiB3d"]
         ELSE Num(0),
     r53_cost |-> r53.r53_cost,
     r53_zones |-> r53.zones,
     r53_health |-> r53.health_checks,
     eip_cost |-> r53.eip_cost,
     eip_alloc |-> r53.eips,
     eip_unatt |-> r53.eips_unattached]

(***************************************************************************)
(* The calls as actions.  build_report (lines 238-316) runs the six        *)
(* loaders in order and then computes its facts; an exception of any of    *)
(* them ends it at that step (pc stays there, exc names the exception).    *)
(***************************************************************************)
Running(step) == pc = step /\ exc = "none"

\* what a step leaves alone besides the variables it names
Keep(changed) ==
    /\ UNCHANGED <<dir, it, steps, ret>>
    /\ IF "cost_df" \in changed THEN TRUE ELSE UNCHANGED cost_df
    /\ IF "ec2" \in changed THEN TRUE ELSE UNCHANGED <<ec2_df, ec2m_df>>
    /\ IF "ebs_df" \in changed THEN TRUE ELSE UNCHANGED ebs_df
    /\ IF "s3sizes_df" \in changed THEN TRUE ELSE UNCHANGED s3sizes_df
    /\ IF "misc" \in changed THEN TRUE ELSE UNCHANGED misc
    /\ IF "r53eip" \in changed THEN TRUE ELSE UNCHANGED r53eip
    /\ IF "insights" \in changed THEN TRUE ELSE UNCHANGED <<rs_rows, idle_candidates, insights>>

\* the step raised
Fails(r) == pc' = pc /\ exc' = r.exc /\ Keep({})

\* line 240
LoadCostByService ==
    /\ Running("load_cost_by_service")
    /\ LET r == load_cost_by_service(dir) IN
       IF Raised(r) THEN Fails(r)
       ELSE /\ cost_df' = r.val
            /\ pc' = "load_ec2"
            /\ exc' = exc
            /\ Keep({"cost_df"})

\* line 241
LoadEc2 ==
    /\ Running("load_ec2")
    /\ \E order \in Orders(Glob(dir, "cpu_", ".json")) :
         LET r == load_ec2(dir, order) IN
         IF Raised(r) THEN Fails(r)
         ELSE /\ ec2_df' = r.val.ec2
              /\ ec2m_df' = r.val.ec2m
              /\ pc' = "load_ebs"
              /\ exc' = exc
              /\ Keep({"ec2"})

\* line 242
LoadEbs ==
    /\ Running("load_ebs")
    /\ LET r == load_ebs(dir) IN
       IF Raised(r) THEN Fails(r)
       ELSE /\ ebs_df' = r.val
            /\ pc' = "load_s3_sizes"
            /\ exc' = exc
            /\ Keep({"ebs_df"})

\* line 243
LoadS3Sizes ==
    /\ Running("load_s3_sizes")
    /\ \E order \in Orders(Glob(dir, "s3-", "-size.json")) :
         LET r == load_s3_sizes(dir, order) IN
         IF Raised(r) THEN Fails(r)
         ELSE /\ s3sizes_df' = r.val
              /\ pc' = "load_misc"
              /\ exc' = exc
              /\ Keep({"s3sizes_df"})

\* line 244
LoadMisc ==
    /\ Running("load_misc")
    /\ LET r == load_misc(dir) IN
       IF Raised(r) THEN Fails(r)
       ELSE /\ misc' = r.val
            /\ pc' = "load_route53_eip"
            /\ exc' = exc
            /\ Keep({"misc"})

\* line 245
LoadRoute53Eip ==
    /\ Running("load_route53_eip")
    /\ \E order \in Orders(Glob(dir, "route53-records-", ".json")) :
         LET r == load_route53_eip(dir, order) IN
         IF Raised(r) THEN Fails(r)
         ELSE /\ r53eip' = r.val
              /\ pc' = "insights"
              /\ exc' = exc
              /\ Keep({"r53eip"})

\* lines 247-316: the rightsizing loop, then the storage facts, then
\* load_route53_eip a second time (line 304) and the facts read from it
ComputeInsights ==
    /\ Running("insights")
    /\ \E order \in Orders(Glob(dir, "route53-records-", ".json")) :
         LET rs == Rightsizing(ec2m_df)
             r53 == load_route53_eip(dir, order)
         IN  IF Raised(rs) THEN Fails(rs)
             ELSE IF Raised(r53) THEN Fails(r53)
             ELSE /\ rs_rows' = rs.val.rs_rows
                  /\ idle_candidates' = rs.val.idle_candidates
                  /\ r53eip' = r53.val
                  /\ insights' = Insights(cost_df, ec2_df, ebs_df, s3sizes_df, r53.val)
                  /\ pc' = "done"
                  /\ exc' = exc
                  /\ Keep({"r53eip", "insights"})

Next ==
    \/ LoadCostByService
    \/ LoadEc2
    \/ LoadEbs
    \/ LoadS3Sizes
    \/ LoadMisc
    \/ LoadRoute53Eip
    \/ ComputeInsights

\* a call of downsize_type(it, n); the next call is handed its result
DownsizeCall ==
    /\ pc = "downsize_type"
    /\ Len(ret) < 2
    /\ \E n \in 0..MaxSteps :
         /\ steps' = n
         /\ ret' = Append(ret, [it |-> it, steps |-> n, out |-> downsize_type(it, n)])
         /\ it' = downsize_type(it, n)
    /\ UNCHANGED <<pc, exc, dir, cost_df, ec2_df, ec2m_df, ebs_df, s3sizes_df,
                   misc, r53eip, rs_rows, idle_candidates, insights>>

NextDownsize == DownsizeCall

(***************************************************************************)
(* Input documents.                                                        *)
(***************************************************************************)
S(x) == Str(<<x>>)

\* the directory without files
NoFiles == <<>>

\* an instance type family.size
T(fam, size) == <<fam, Dot, size>>

CostDoc ==
    Dict([ResultsByTime |-> List(<<Dict([Groups |-> List(<<
        Dict([Keys |-> List(<<S("S3")>>),
              Metrics |-> Dict([UnblendedCost |-> Dict([Amount |-> Str(<<"3", "E", "1">>)])])]),
        Dict([Keys |-> List(<<S("EC2")>>),
              Metrics |-> Dict([UnblendedCost |-> Dict([Amount |-> Str(<<"12", Dot, "3">>)])])]),
        Dict([Keys |-> List(<<S("Tax")>>),
              Metrics |-> Dict([UnblendedCost |-> Dict([Amount |-> S("n/a")])])])
      >>)])>>)])

\* a size series of n datapoints, each with Average v
Points(n, v) == List([i \in 1..n |-> Dict([Average |-> Num(v)])])

MiB == 1024 * 1024
S3Doc == Dict([Datapoints |-> Points(2, 3 * MiB)])
F_s3 == <<"s3-", "bucket1", "-size.json">>

TotalDoc(amount) ==
    Dict([ResultsByTime |-> List(<<
        Dict([Total |-> Dict([UnblendedCost |-> Dict([Amount |-> amount])])])>>)])

(***************************************************************************)
(* Initial states.                                                         *)
(***************************************************************************)
\* the locals of a call that has not assigned them yet
Unassigned ==
    /\ exc = "none"
    /\ cost_df = EmptyDF
    /\ ec2_df = EmptyDF
    /\ ec2m_df = EmptyDF
    /\ ebs_df = EmptyDF
    /\ s3sizes_df = EmptyDF
    /\ misc = [rds_df |-> EmptyDF, lb_total |-> 0, nat_total |-> 0, tag_count |-> 0]
    /\ r53eip = [r53_cost |-> Num(0), eip_cost |-> Num(0), zones |-> 0,
                 health_checks |-> 0, eips |-> 0, eips_unattached |-> 0,
                 dupes |-> EmptyDF, low_ttl |-> EmptyDF]
    /\ rs_rows = <<>>
    /\ idle_candidates = 0
    /\ insights = [k \in {} |-> 0]

NoDownsizeCall == it = <<>> /\ steps = 0 /\ ret = <<>>

(***************************************************************************)
(* SpecDownsize: calls of downsize_type on type strings of every form.     *)
(***************************************************************************)
Families == {"m5", "t3"}
LadderSizes == {size_order[i] : i \in DOMAIN size_order}

\* family.size with the size on the ladder
LadderTypes == {T(fam, sz) : fam \in Families, sz \in LadderSizes}

\* strings of other forms: a size off the ladder, no separator, the empty
\* string, an empty size, an empty family, a second separator, str(None)
\* and str(NaN)
OtherTypes ==
    {T("m5", "mega"), <<"m5large">>, <<>>, <<"m5", Dot>>, <<Dot, "large">>,
     <<"m5", Dot, "large", Dot, "x">>, <<"None">>, <<"nan">>}

InitDownsize ==
    /\ pc = "downsize_type"
    /\ dir = NoFiles
    /\ Unassigned
    /\ it \in LadderTypes \cup OtherTypes
    /\ steps = 0
    /\ ret = <<>>

SpecDownsize == InitDownsize /\ [][NextDownsize]_vars

(***************************************************************************)
(* Spec: build_report on directories in which any subset of the resource   *)
(* kinds is absent.  The files of an absent kind are all missing, all      *)
(* unreadable or all unparseable (one way per directory); a file that is   *)
(* there holds the sample document of its kind.                            *)
(***************************************************************************)
Kinds == {"cost", "ec2", "cpu", "ebs", "s3", "rds", "lb-nat-tags", "route53",
          "records", "eip"}

F_cpu1 == <<"cpu_", "i-1", ".json">>
F_rec1 == <<"route53-records-", "Z1", ".json">>

\* the files of a resource kind
FilesOf(k) ==
    CASE k = "cost" -> {F_cost}
      [] k = "ec2" -> {F_ec2}
      [] k = "cpu" -> {F_cpu1}
      [] k = "ebs" -> {F_ebs}
      [] k = "s3" -> {F_s3}
      [] k = "rds" -> {F_rds}
      [] k = "lb-nat-tags" -> {F_lb, F_nat, F_tags}
      [] k = "route53" -> {F_r53cost, F_zones, F_health}
      [] k = "records" -> {F_rec1}
      [] k = "eip" -> {F_eips, F_eipcost}

\* a name as a string of DNS lexemes
Dns(a, b) == <<a, Dot, "example", Dot, b>>

SampleDoc(n) ==
    CASE n = F_cost -> CostDoc
      [] n = F_ec2 ->
           List(<<Dict([InstanceId |-> S("i-1"), InstanceType |-> Str(T("m5", "large")),
                        State |-> Dict([Name |-> S("running")])]),
                  Dict([InstanceId |-> S("i-2"), InstanceType |-> Str(T("t3", "micro")),
                        State |-> Dict([Name |-> S("stopped")])])>>)
      [] n = F_cpu1 -> Dict([Datapoints |-> Points(MinSamples, 3)])
      [] n = F_ebs ->
           List(<<List(<<S("vol-1"), Num(8), S("gp2"), S("available"), None,
                         PyBool(FALSE), S("2024")>>),
                  List(<<S("vol-2"), Num(16), S("gp3"), S("in-use"), S("i-1"),
                         PyBool(TRUE), S("2024")>>)>>)
      [] n = F_s3 -> S3Doc
      [] n = F_rds -> List(<<List(<<S("db-1"), S("mysql"), S("db.t3.micro")>>)>>)
      [] n = F_lb -> Dict([LoadBalancers |-> List(<<EmptyDict>>)])
      [] n = F_nat -> Dict([NatGateways |-> List(<<EmptyDict>>)])
      [] n = F_tags -> Dict([ResourceTagMappingList |-> List(<<EmptyDict, EmptyDict>>)])
      [] n = F_r53cost -> TotalDoc(S("3"))
      [] n = F_eipcost -> TotalDoc(S("1"))
      [] n = F_zones -> Dict([HostedZones |-> List(<<EmptyDict>>)])
      [] n = F_health -> Dict([HealthChecks |-> List(<<EmptyDict>>)])
      [] n = F_eips ->
           Dict([Addresses |-> List(<<Dict([AllocationId |-> S("e-1")]),
                                      Dict([AllocationId |-> S("e-2"),
                                            InstanceId |-> S("i-1")])>>)])
      [] n = F_rec1 ->
           Dict([ResourceRecordSets |-> List(<<
               Dict([Type |-> S("A"), Name |-> Str(Dns("www", "com")),
                     TTL |-> PyInt(60),
                     ResourceRecords |-> List(<<Dict([Value |-> S("192.0.2.1")])>>)])>>)])

\* how the absent files of a directory are absent
Absences == {"missing", "unreadable", "unparseable"}

\* the directory with the files of the kinds in present, the others absent
DirWith(present, absence) ==
    LET ok == UNION {FilesOf(k) : k \in present}
        all == UNION {FilesOf(k) : k \in Kinds}
    IN  [n \in (IF absence = "missing" THEN ok ELSE all) |->
           IF n \in ok THEN Json(SampleDoc(n))
           ELSE IF absence = "unreadable" THEN Unreadable
           ELSE Unparseable]

Init ==
    /\ pc = "load_cost_by_service"
    /\ \E present \in SUBSET Kinds, absence \in Absences :
         dir = DirWith(present, absence)
    /\ Unassigned
    /\ NoDownsizeCall

Spec == Init /\ [][Next]_vars


(***************************************************************************)
(* SpecRightsizing: build_report on directories whose instance inventory   *)
(* and CPU sample files vary.  The inventory is a list of objects: the     *)
(* instance i-1, with up to MaxOthers more instances before or after it.   *)
(***************************************************************************)
\* a series of n datapoints: n - 1 with Average v, then one with Average w
Series(n, v, w) ==
    Dict([Datapoints |->
            List([i \in 1..n |-> Dict([Average |-> Num(IF i < n THEN v ELSE w)])])])

\* MinSamples datapoints of which one has no Average
SeriesWithGap ==
    Dict([Datapoints |->
            List([i \in 1..MinSamples |->
                    IF i = 2 THEN Dict([Timestamp |-> S("t")])
                    ELSE Dict([Average |-> Num(3)])])])

\* what cpu_<id>.json may hold
CpuDocs ==
    {Series(MinSamples - 1, v, v) : v \in {3, 30}}
    \cup {Series(MinSamples, vw[1], vw[2]) :
            vw \in {<<3, 3>>, <<5, 5>>, <<5, 4>>, <<20, 20>>, <<20, 19>>, <<30, 30>>}}
    \cup {Series(MaxSamples, vw[1], vw[2]) : vw \in {<<3, 3>>, <<5, 4>>, <<20, 20>>}}
    \cup {Series(0, 0, 0), Series(1, 3, 3), SeriesWithGap, EmptyDict}

\* the states of cpu_<id>.json; "none" stands for no such file
CpuFiles == {[t |-> "none"], Unparseable} \cup {Json(doc) : doc \in CpuDocs}

\* the InstanceType of i-1: a key the object lacks is "absent"
TypeValues ==
    {Str(T("m5", "large")), Str(T("t3", "nano")), Str(T("m5", "mega")),
     Str(<<"m5large">>), Str(<<Dot, "large">>), None, [t |-> "absent"]}

InstanceDoc(id, type, state) ==
    IF type.t = "absent"
    THEN Dict([InstanceId |-> S(id), State |-> S(state)])
    ELSE Dict([InstanceId |-> S(id), InstanceType |-> type, State |-> S(state)])

MaxOthers == 1
OtherIds == <<"i-2", "i-3", "i-4">>

\* the inventory and the sample files of one directory: main and others are
\* records [doc, cpu] placed in the order given
Ec2Files(instances, ids) ==
    [n \in {F_ec2} \cup {<<"cpu_", ids[i], ".json">> :
                           i \in {j \in DOMAIN ids : instances[j].cpu.t # "none"}} |->
       IF n = F_ec2
       THEN Json(List([i \in 1..Len(instances) |-> instances[i].doc]))
       ELSE instances[CHOOSE i \in DOMAIN ids : n[2] = ids[i]].cpu]

\* the files of base with those of more added
Plus(base, more) ==
    [n \in DOMAIN base \cup DOMAIN more |-> IF n \in DOMAIN more THEN more[n] ELSE base[n]]

BaseDir == [n \in {F_cost, F_s3} |-> IF n = F_cost THEN Json(CostDoc) ELSE Json(S3Doc)]

Mains ==
    {[doc |-> InstanceDoc("i-1", ty, st), cpu |-> c] :
       ty \in TypeValues, st \in {"running", "stopped"}, c \in CpuFiles}
\* a further instance: running without sample file, running and idle, or
\* stopped and idle
Others(k) ==
    {[doc |-> InstanceDoc(OtherIds[k], Str(T("m5", "large")), sc[1]), cpu |-> sc[2]] :
       sc \in {<<"running", [t |-> "none"]>>,
               <<"running", Json(Series(MinSamples, 3, 3))>>,
               <<"stopped", Json(Series(MinSamples, 3, 3))>>}}

InitRightsizing ==
    /\ pc = "load_cost_by_service"
    /\ \E main \in Mains, n \in 0..MaxOthers, first \in BOOLEAN :
         \E others \in [1..n -> UNION {Others(k) : k \in 1..n}] :
            /\ \A k \in 1..n : others[k] \in Others(k)
            /\ (n = 0 => first)
            /\ dir = Plus(BaseDir,
                          IF first
                          THEN Ec2Files(<<main>> \o others,
                                        <<"i-1">> \o SubSeq(OtherIds, 1, n))
                          ELSE Ec2Files(others \o <<main>>,
                                        SubSeq(OtherIds, 1, n) \o <<"i-1">>))
    /\ Unassigned
    /\ NoDownsizeCall

SpecRightsizing == InitRightsizing /\ [][Next]_vars


(***************************************************************************)
(* Directories for the DNS findings: the record-set file of zone Z1 holds  *)
(* up to MaxRecords record sets, that of zone Z2 is one of a few.          *)
(***************************************************************************)
MaxRecords == 3

F_rec2 == <<"route53-records-", "Z2", ".json">>
LbName == <<"lb", Dot, "example", Dot, "com">>
Values(vs) == List([i \in 1..Len(vs) |-> Dict([Value |-> S(vs[i])])])

\* an alias record set and a record set with raw values
AliasRr(type, name, dns) ==
    Dict([Type |-> S(type), Name |-> Str(name),
          AliasTarget |-> Dict([HostedZoneId |-> S("Z9"), DNSName |-> Str(dns)])])
ValueRr(type, name, ttl, vs) ==
    Dict([Type |-> S(type), Name |-> Str(name), TTL |-> PyInt(ttl),
          ResourceRecords |-> Values(vs)])

RrWww == ValueRr("A", Dns("www", "com"), 60, <<"192.0.2.1">>)
RrApi == ValueRr("A", Dns("api", "com"), LowTtlLimit, <<"192.0.2.1", "lb.example.com">>)
RrChoices ==
    {AliasRr("A", Dns("www", "com"), LbName \o <<Dot>>),
     AliasRr("A", Dns("api", "com"), <<"LB", Dot, "EXAMPLE", Dot, "COM">>),
     RrWww,
     RrApi,
     ValueRr("CNAME", LbName, 60, <<"192.0.2.1">>),
     Dict([Type |-> S("A"), Name |-> Str(LbName),
           AliasTarget |-> Dict([HostedZoneId |-> S("Z9")]),
           ResourceRecords |-> Values(<<"192.0.2.1">>)])}

RecordsDoc(rrs) == Dict([ResourceRecordSets |-> List(rrs)])
Zone1Docs == {RecordsDoc(rrs) : rrs \in UNION {[1..n -> RrChoices] : n \in 0..MaxRecords}}
Zone2Files ==
    {[t |-> "none"], Unparseable} \cup
    {Json(RecordsDoc(rrs)) : rrs \in {<<RrWww>>, <<RrApi>>, <<RrWww, RrApi>>}}

InitDns ==
    /\ pc = "load_cost_by_service"
    /\ \E doc \in Zone1Docs, z2 \in Zone2Files :
         dir = Plus(BaseDir,
                    [n \in {F_rec1} \cup (IF z2.t = "none" THEN {} ELSE {F_rec2}) |->
                       IF n = F_rec1 THEN Json(doc) ELSE z2])
    /\ Unassigned
    /\ NoDownsizeCall

SpecDns == InitDns /\ [][Next]_vars


(***************************************************************************)
(* Directories for the low-TTL findings: the record-set file of zone Z1    *)
(* holds one record set of every type, alias target and TTL form, next to  *)
(* up to MaxCompanions record sets of type A; zone Z2 has a file or none.  *)
(***************************************************************************)
MaxCompanions == 1

\* the record set www.example.com with raw value 192.0.2.1; "absent" stands
\* for a key the object lacks
TtlRr(type, alias, ttl) ==
    LET base == [Type |-> S(type), Name |-> Str(Dns("www", "com")),
                 ResourceRecords |-> Values(<<"192.0.2.1">>)]
        withAlias == IF alias.t = "absent" THEN base
                     ELSE [k \in DOMAIN base \cup {"AliasTarget"} |->
                             IF k = "AliasTarget" THEN alias ELSE base[k]]
    IN  Dict(IF ttl.t = "absent" THEN withAlias
             ELSE [k \in DOMAIN withAlias \cup {"TTL"} |->
                     IF k = "TTL" THEN ttl ELSE withAlias[k]])

TtlRrs ==
    {TtlRr(type, alias, ttl) :
       type \in {"A", "AAAA", "CNAME", "MX"},
       alias \in {[t |-> "absent"], None,
                  Dict([HostedZoneId |-> S("Z9"), DNSName |-> Str(LbName \o <<Dot>>)])},
       ttl \in {[t |-> "absent"], None, PyInt(0), PyInt(60), PyInt(LowTtlLimit - 1),
                PyInt(LowTtlLimit), PyInt(LowTtlLimit + 1), S("60"), Num(60)}}

InitTtl ==
    /\ pc = "load_cost_by_service"
    /\ \E rr \in TtlRrs, n \in 0..MaxCompanions, first \in BOOLEAN, z2 \in BOOLEAN :
         \E more \in [1..n -> {RrWww, RrApi}] :
            /\ (n = 0 => first)
            /\ dir = Plus(BaseDir,
                     [f \in {F_rec1} \cup (IF z2 THEN {F_rec2} ELSE {}) |->
                        IF f = F_rec1
                        THEN Json(RecordsDoc(IF first THEN <<rr>> \o more
                                             ELSE more \o <<rr>>))
                        ELSE Json(RecordsDoc(<<RrWww, RrApi>>))])
    /\ Unassigned
    /\ NoDownsizeCall

SpecTtl == InitTtl /\ [][Next]_vars

(***************************************************************************)
(* Directories for the inventory shapes: either ec2-instances.json or      *)
(* ebs-volumes.json holds up to MaxRecs records, in the legacy shape (a    *)
(* flat list of positional arrays, one nested list of them, one nested     *)
(* list per array) or, for the instances, as objects with a State of       *)
(* every form; every instance has a sample file.                           *)
(***************************************************************************)
MaxRecs == 2

InstanceIds == <<"i-1">> \o OtherIds
\* the sequences of 1..n elements of X
SeqsUpTo(X, n) == UNION {[1..k -> X] : k \in 1..n}

\* positional arrays of len fields
Ec2Array(id, len) ==
    List(SubSeq(<<S(id), Str(T("m5", "large")), S("running"), S("az-1"), S("2024"),
                  S("extra")>>, 1, len))
EbsArray(id, len) ==
    List(SubSeq(<<S(id), Num(8), S("gp2"), S("available"), None, PyBool(FALSE),
                  S("2024"), S("extra")>>, 1, len))

\* the three legacy documents holding the arrays recs
LegacyDocs(recs) ==
    {List(recs), List(<<List(recs)>>), List([i \in 1..Len(recs) |-> List(<<recs[i]>>)])}

\* the forms of State in an instance object; "absent" is an object without it
StateForms ==
    {S("running"), S("stopped"), Dict([Name |-> S("running")]),
     Dict([Name |-> S("stopped"), Code |-> PyInt(80)]), [t |-> "absent"]}
StateDoc(states) ==
    List([i \in 1..Len(states) |->
            IF states[i].t = "absent"
            THEN Dict([InstanceId |-> S(InstanceIds[i]),
                       InstanceType |-> Str(T("m5", "large"))])
            ELSE Dict([InstanceId |-> S(InstanceIds[i]),
                       InstanceType |-> Str(T("m5", "large")),
                       State |-> states[i]])])

Ec2Docs ==
    UNION {LegacyDocs([i \in 1..Len(lens) |-> Ec2Array(InstanceIds[i], lens[i])]) :
             lens \in SeqsUpTo({Ec2MinFields - 1, Ec2MinFields, Ec2MinFields + 1}, MaxRecs)}
    \cup {StateDoc(states) : states \in SeqsUpTo(StateForms, MaxRecs)}
EbsDocs ==
    UNION {LegacyDocs([i \in 1..Len(lens) |-> EbsArray(InstanceIds[i], lens[i])]) :
             lens \in SeqsUpTo({EbsMinFields - 1, EbsMinFields, EbsMinFields + 1}, MaxRecs)}

\* cost, bucket size and one sample file per instance id
InventoryBase ==
    Plus(BaseDir, [n \in {<<"cpu_", InstanceIds[i], ".json">> : i \in DOMAIN InstanceIds} |->
                     Json(Series(MinSamples, 3, 3))])

InitInventory ==
    /\ pc = "load_cost_by_service"
    /\ \E ec2 \in Ec2Docs \cup {SampleDoc(F_ec2)}, ebs \in EbsDocs \cup {SampleDoc(F_ebs)} :
         /\ ec2 = SampleDoc(F_ec2) \/ ebs = SampleDoc(F_ebs)
         /\ dir = Plus(InventoryBase,
                       [n \in {F_ec2, F_ebs} |-> IF n = F_ec2 THEN Json(ec2) ELSE Json(ebs)])
    /\ Unassigned
    /\ NoDownsizeCall

SpecInventory == InitInventory /\ [][Next]_vars

(***************************************************************************)
(* The properties, by the id of the claim each one states.                 *)
(***************************************************************************)
\* t is family.size with a one-lexeme family and a size on the ladder
IsLadderType(t) == Len(t) = 3 /\ t[1] # Dot /\ t[2] = Dot /\ t[3] \in LadderSizes
\* the 0-based ladder position of a size
LadderPos(sz) == (CHOOSE i \in DOMAIN size_order : size_order[i] = sz) - 1
\* family.ladder[max(0, index(size) - n)]
Stepped(t, n) ==
    <<t[1], Dot, size_order[(IF LadderPos(t[3]) > n THEN LadderPos(t[3]) - n ELSE 0) + 1]>>

\* C8: for a type family.size with the size on the ladder and n >= 0,
\* downsize_type returns family.ladder[max(0, index(size) - n)]: never a
\* larger size, family.nano whenever n >= index(size), and two calls in a
\* row give what one call with the sum of their steps gives
C8_DownsizeLadder ==
    /\ \A i \in DOMAIN ret :
         IsLadderType(ret[i].it) =>
           /\ ret[i].out = Stepped(ret[i].it, ret[i].steps)
           /\ IsLadderType(ret[i].out)
           /\ LadderPos(ret[i].out[3]) <= LadderPos(ret[i].it[3])
           /\ (ret[i].steps >= LadderPos(ret[i].it[3])
                 => ret[i].out = T(ret[i].it[1], "nano"))
    /\ (Len(ret) = 2 /\ IsLadderType(ret[1].it))
         => ret[2].out = Stepped(ret[1].it, ret[1].steps + ret[2].steps)

\* a call clamped at nano, and 8xlarge taken down five steps twice
C8_Witness ==
    /\ Len(ret) = 2
    /\ ret[1].it = T("m5", "8xlarge")
    /\ ret[1].steps = 5
    /\ ret[2].steps = 5
    /\ ret[2].out = T("m5", "nano")


\* the steps of build_report in order
StepOrder == <<"load_cost_by_service", "load_ec2", "load_ebs", "load_s3_sizes",
               "load_misc", "load_route53_eip", "insights", "done">>
StepPos(step) == CHOOSE i \in DOMAIN StepOrder : StepOrder[i] = step
\* the step has returned
Past(step) == StepPos(pc) > StepPos(step)
\* the step raised
RaisedAt(step) == pc = step /\ exc # "none"
\* the file is missing, unreadable or not parseable
Absent(n) == n \notin DOMAIN dir \/ dir[n].t # "json"
AllAbsent(names) == \A n \in names : Absent(n)

\* C1: when a resource kind's file is missing, unreadable or unparseable,
\* the loader of that kind does not raise and returns an empty record set
\* (a zero count, a zero cost) for it
C1_AbsentKindLoadsEmpty ==
    /\ Absent(F_cost) =>
         /\ ~RaisedAt("load_cost_by_service")
         /\ Past("load_cost_by_service") => cost_df.rows = <<>>
    /\ Absent(F_ec2) =>
         /\ ~RaisedAt("load_ec2")
         /\ Past("load_ec2") => ec2_df.rows = <<>> /\ ec2m_df.rows = <<>>
    /\ AllAbsent(Glob(dir, "cpu_", ".json")) => ~RaisedAt("load_ec2")
    /\ Absent(F_ebs) =>
         /\ ~RaisedAt("load_ebs")
         /\ Past("load_ebs") => ebs_df.rows = <<>>
    /\ AllAbsent(Glob(dir, "s3-", "-size.json")) =>
         /\ ~RaisedAt("load_s3_sizes")
         /\ Past("load_s3_sizes") => s3sizes_df.rows = <<>>
    /\ (Absent(F_rds) \/ Absent(F_lb) \/ Absent(F_nat) \/ Absent(F_tags)) =>
         ~RaisedAt("load_misc")
    /\ Past("load_misc") =>
         /\ Absent(F_rds) => misc.rds_df.rows = <<>>
         /\ Absent(F_lb) => misc.lb_total = 0
         /\ Absent(F_nat) => misc.nat_total = 0
         /\ Absent(F_tags) => misc.tag_count = 0
    /\ (Absent(F_r53cost) \/ Absent(F_zones) \/ Absent(F_health) \/ Absent(F_eips)
          \/ Absent(F_eipcost) \/ AllAbsent(Glob(dir, "route53-records-", ".json"))) =>
         ~RaisedAt("load_route53_eip")
    /\ Past("load_route53_eip") =>
         /\ Absent(F_r53cost) => r53eip.r53_cost = Num(0)
         /\ Absent(F_eipcost) => r53eip.eip_cost = Num(0)
         /\ Absent(F_zones) => r53eip.zones = 0
         /\ Absent(F_health) => r53eip.health_checks = 0
         /\ Absent(F_eips) => r53eip.eips = 0 /\ r53eip.eips_unattached = 0
         /\ AllAbsent(Glob(dir, "route53-records-", ".json")) =>
              r53eip.dupes.rows = <<>> /\ r53eip.low_ttl.rows = <<>>

\* C2: whatever files are absent, build_report does not raise, and at its
\* end every fact whose source table is empty has its default
C2_CompletesWithDefaults ==
    /\ exc = "none"
    /\ pc = "done" =>
         /\ IsEmpty(cost_df) =>
              insights.top_service = Str(NA) /\ insights.top_cost = Num(0)
         /\ IsEmpty(ec2_df) =>
              /\ insights.ec2_total = 0
              /\ insights.ec2_running = 0
              /\ idle_candidates = 0
         /\ IsEmpty(ebs_df) =>
              insights.ebs_unattached = 0 /\ insights.ebs_gp2 = 0
         /\ IsEmpty(s3sizes_df) =>
              insights.largest_bucket = Str(NA) /\ insights.largest_gib = Num(0)
         /\ Absent(F_r53cost) => insights.r53_cost = Num(0)
         /\ Absent(F_zones) => insights.r53_zones = 0
         /\ Absent(F_health) => insights.r53_health = 0
         /\ Absent(F_eipcost) => insights.eip_cost = Num(0)
         /\ Absent(F_eips) => insights.eip_alloc = 0 /\ insights.eip_unatt = 0

\* the sample files whose name gives instance id v
SampleFilesFor(v) ==
    {n \in Glob(dir, "cpu_", ".json") :
       ~Absent(n) /\ Truthy(dir[n].v) /\ Str(Remove(Stem(n), "cpu_")) = v}

\* C3: for a non-empty inventory and any set of sample files, the empty set
\* included, load_ec2 returns an enriched table with every inventory record
\* in order, and an instance no sample file matches has null average, null
\* 95th percentile and null sample count
C3_JoinKeepsInventory ==
    /\ ~RaisedAt("load_ec2")
    /\ Past("load_ec2") =>
         /\ Len(ec2m_df.rows) = Len(ec2_df.rows)
         /\ \A i \in DOMAIN ec2_df.rows :
              /\ \A c \in ec2_df.cols : ec2m_df.rows[i][c] = ec2_df.rows[i][c]
              /\ SampleFilesFor(ec2_df.rows[i]["InstanceId"]) = {} =>
                   /\ IsNA(ec2m_df.rows[i]["CPUAvg7d"])
                   /\ IsNA(ec2m_df.rows[i]["CPU95p7d"])
                   /\ IsNA(ec2m_df.rows[i]["Samples"])

\* the rows of the enriched table whose state is "running"
RunningEnriched == SelectSeq(ec2m_df.rows, LAMBDA r : r["State"] = S("running"))

\* C4: build_report produces exactly one recommendation row, with type and
\* reason, for every running enriched instance, also for one whose
\* utilization is null while other instances have sample files
C4_RowPerRunningInstance ==
    /\ ~RaisedAt("insights")
    /\ pc = "done" =>
         /\ Len(rs_rows) = Len(RunningEnriched)
         /\ \A i \in DOMAIN rs_rows :
              /\ rs_rows[i].InstanceId = RunningEnriched[i]["InstanceId"]
              /\ rs_rows[i].Reason \in {InsufficientReason, Downsize2Reason,
                                        Downsize1Reason, RetainReason}


\* the average CPU and the sample count of an enriched row, as build_report
\* reads them before deciding
CpuOf(r) == r["CPUAvg7d"]
\* the average is exactly n
CpuIs(r, n) == ~IsNA(CpuOf(r)) /\ ~FracLess(CpuOf(r), Num(n)) /\ ~FracLess(Num(n), CpuOf(r))
SamplesAtLeast(r, n) == IsNum(r["Samples"]) /\ ~FracLess(r["Samples"], Num(n))
Measured(r) == ~IsNA(CpuOf(r)) /\ SamplesAtLeast(r, MinSamples)
\* rs_rows holds one row per running enriched instance, in order
RowsAligned == Len(rs_rows) = Len(RunningEnriched)

C6_IdleCandidates ==
    pc = "done" =>
      /\ RowsAligned
      /\ idle_candidates =
           Cardinality({i \in DOMAIN RunningEnriched :
                          /\ Measured(RunningEnriched[i])
                          /\ FracLess(CpuOf(RunningEnriched[i]), Num(5))})
      /\ \A i \in DOMAIN rs_rows :
           (/\ Measured(RunningEnriched[i])
            /\ FracLess(CpuOf(RunningEnriched[i]), Num(5)))
             <=> rs_rows[i].Reason = "CPU<5% (downsize 2)"
C6_Witness ==
    /\ pc = "done"
    /\ idle_candidates = 1
    /\ Len(rs_rows) = 2
    /\ \E i \in DOMAIN rs_rows :
         /\ Measured(RunningEnriched[i])
         /\ CpuIs(RunningEnriched[i], IdleCpu)
         /\ rs_rows[i].Reason # Downsize2Reason

\* C7: with at least 12 samples and a non-null average, an average below 5
\* gives downsize_type(current, 2), otherwise an average below 20 gives
\* downsize_type(current, 1), otherwise the current type is kept; exactly 5
\* is the one-step case and exactly 20 the retain case; an m5.large at 3%
\* over 20 samples gets m5.small
C7_DecisionOrder ==
    pc = "done" =>
      /\ RowsAligned
      /\ \A i \in DOMAIN rs_rows :
           LET e == RunningEnriched[i]
               row == rs_rows[i]
               cur == PyStr(RowGet(e, "InstanceType", Str(<<>>)))
           IN  Measured(e) =>
                 /\ row.CurrentType = cur
                 /\ FracLess(CpuOf(e), Num(5)) =>
                      /\ row.RecommendedType = downsize_type(cur, 2)
                      /\ row.Reason = Downsize2Reason
                 /\ (~FracLess(CpuOf(e), Num(5)) /\ FracLess(CpuOf(e), Num(20))) =>
                      /\ row.RecommendedType = downsize_type(cur, 1)
                      /\ row.Reason = Downsize1Reason
                 /\ ~FracLess(CpuOf(e), Num(20)) =>
                      /\ row.RecommendedType = cur
                      /\ row.Reason = RetainReason
                 /\ (cur = T("m5", "large") /\ CpuIs(e, 3)
                       /\ e["Samples"] = Num(20)) =>
                      row.RecommendedType = T("m5", "small")
                 /\ (cur = T("m5", "large") /\ CpuIs(e, 5)) =>
                      row.RecommendedType = T("m5", "medium")
C7_Witness ==
    /\ pc = "done"
    /\ \E i \in DOMAIN rs_rows :
         /\ rs_rows[i].CurrentType = T("m5", "large")
         /\ CpuIs(RunningEnriched[i], 3)
         /\ RunningEnriched[i]["Samples"] = Num(20)
         /\ rs_rows[i].RecommendedType = T("m5", "small")

\* a non-empty family, the separator, a non-empty size
IsFamilySize(t) == IndexOf(t, Dot) > 1 /\ IndexOf(t, Dot) < Len(t)
FamilyOf(t) == SubSeq(t, 1, IndexOf(t, Dot) - 1)
\* the text up to and including the first separator, then a ladder size
IsPrefixWithLadderSize(cur, rec) ==
    /\ IndexOf(cur, Dot) > 0
    /\ \E k \in DOMAIN size_order :
         rec = SubSeq(cur, 1, IndexOf(cur, Dot)) \o <<size_order[k]>>

\* C9 (as stated): every recommended type is a valid family.size string of
\* the current type's family, also when the current type is missing, has no
\* separator or has a size off the ladder
C9_AsStated ==
    pc = "done" =>
      \A i \in DOMAIN rs_rows :
        /\ IsFamilySize(rs_rows[i].RecommendedType)
        /\ IsFamilySize(rs_rows[i].CurrentType) =>
             FamilyOf(rs_rows[i].RecommendedType) = FamilyOf(rs_rows[i].CurrentType)

\* C9: every recommended type is either the current type's text unchanged
\* or that text up to its first separator followed by a ladder size; when
\* the current type is a valid family.size string so is the recommended
\* type, with the same family; a current type that is missing or has no
\* separator is carried over as it is
C9_RecommendedTypeShape ==
    pc = "done" =>
      \A i \in DOMAIN rs_rows :
        LET cur == rs_rows[i].CurrentType
            rec == rs_rows[i].RecommendedType
        IN  /\ rec = cur \/ IsPrefixWithLadderSize(cur, rec)
            /\ IsFamilySize(cur) => IsFamilySize(rec) /\ FamilyOf(rec) = FamilyOf(cur)
            /\ IndexOf(cur, Dot) = 0 => rec = cur
C9_Witness ==
    /\ pc = "done"
    /\ \E i \in DOMAIN rs_rows :
         /\ rs_rows[i].CurrentType = <<"m5large">>
         /\ rs_rows[i].Reason = Downsize2Reason
         /\ rs_rows[i].RecommendedType = <<"m5large">>
    /\ \E i \in DOMAIN rs_rows :
         /\ rs_rows[i].CurrentType = T("m5", "large")
         /\ rs_rows[i].RecommendedType = T("m5", "small")


\* the record sets of the file of zone z, none when the file does not load
ZoneFile(z) == <<"route53-records-", z, ".json">>
RecordSetsOf(z) ==
    IF Absent(ZoneFile(z)) THEN <<>>
    ELSE dir[ZoneFile(z)].v.f["ResourceRecordSets"].items
\* a string without its trailing dot, in lower case
StripDot(s) == IF s # <<>> /\ s[Len(s)] = Dot THEN SubSeq(s, 1, Len(s) - 1) ELSE s
\* the type-A record set rr binds to the target tg
BindsTo(rr, tg) ==
    /\ rr.f["Type"] = S("A")
    /\ IF "AliasTarget" \in DOMAIN rr.f /\ "DNSName" \in DOMAIN rr.f["AliasTarget"].f
       THEN Lower(StripDot(rr.f["AliasTarget"].f["DNSName"].s)) = tg
       ELSE \E i \in DOMAIN rr.f["ResourceRecords"].items :
              rr.f["ResourceRecords"].items[i].f["Value"].s = tg
\* the distinct names of zone z bound to tg
NamesBound(z, tg) ==
    {RecordSetsOf(z)[i].f["Name"].s :
       i \in {j \in DOMAIN RecordSetsOf(z) : BindsTo(RecordSetsOf(z)[j], tg)}}
ZoneIds == {"Z1", "Z2"}
Targets == {<<"192.0.2.1">>, <<"lb.example.com">>, LbName, LbName \o <<Dot>>,
            <<"LB", Dot, "EXAMPLE", Dot, "COM">>}
FindingsFor(z, tg) ==
    {i \in DOMAIN r53eip.dupes.rows :
       r53eip.dupes.rows[i].ZoneId = Str(<<z>>) /\ r53eip.dupes.rows[i].Target = Str(tg)}

\* C10: load_route53_eip reports a finding (zone, target, names) exactly
\* when, within that zone's record-set file, at least two distinct names of
\* type-A record sets bind to the target, an alias DNS name being compared
\* without its trailing dot and in lower case and a non-alias record set
\* binding each raw value; a repeated name gives no finding, names of
\* different zones are not combined, and the names listed are the sorted
\* set of distinct names
C10_DuplicateTargets ==
    Past("load_route53_eip") =>
      /\ \A i \in DOMAIN r53eip.dupes.rows :
           \E z \in ZoneIds, tg \in Targets :
             r53eip.dupes.rows[i].ZoneId = Str(<<z>>) /\ r53eip.dupes.rows[i].Target = Str(tg)
      /\ \A z \in ZoneIds, tg \in Targets :
           IF Cardinality(NamesBound(z, tg)) >= 2
           THEN /\ Cardinality(FindingsFor(z, tg)) = 1
                /\ \A i \in FindingsFor(z, tg) :
                     r53eip.dupes.rows[i].Names =
                       Str(Join(", ", Sorted(NamesBound(z, tg))))
           ELSE FindingsFor(z, tg) = {}
C10_Witness ==
    /\ Past("load_route53_eip")
    /\ ~Absent(F_rec2)
    /\ \E i \in DOMAIN r53eip.dupes.rows :
         /\ r53eip.dupes.rows[i].ZoneId = S("Z1")
         /\ r53eip.dupes.rows[i].Target = Str(LbName)
         /\ r53eip.dupes.rows[i].Names =
              Str(Dns("api", "com") \o <<", ">> \o Dns("www", "com"))
    /\ \E i, j \in DOMAIN RecordSetsOf("Z1") :
         /\ i # j
         /\ RecordSetsOf("Z1")[i] = RecordSetsOf("Z1")[j]
         /\ BindsTo(RecordSetsOf("Z1")[i], LbName)
    /\ NamesBound("Z2", <<"192.0.2.1">>) # {}
    /\ FindingsFor("Z2", <<"192.0.2.1">>) = {}


\* the record set has one of the three types, no alias target, and an
\* integer TTL below 300
HasLowTtl(rr) ==
    /\ rr.f["Type"] \in {S("A"), S("AAAA"), S("CNAME")}
    /\ "AliasTarget" \notin DOMAIN rr.f \/ IsNone(rr.f["AliasTarget"])
    /\ "TTL" \in DOMAIN rr.f
    /\ IsInt(rr.f["TTL"])
    /\ rr.f["TTL"].n < 300
\* the low-TTL findings of zone z, in the order reported
LowTtlFindings(z) == SelectSeq(r53eip.low_ttl.rows, LAMBDA row : row.ZoneId = S(z))
\* the record sets of zone z that should be reported
LowTtlRecords(z) == SelectSeq(RecordSetsOf(z), HasLowTtl)

\* C11: load_route53_eip reports a low-TTL finding for a record set exactly
\* when its type is A, AAAA or CNAME, it has no alias target and its TTL is
\* an integer below 300: none for a record set with an alias target whatever
\* its TTL, none for a TTL of 300, an absent TTL or a TTL that is no integer;
\* a record set that is part of a duplicate-target finding is reported all
\* the same
C11_LowTtl ==
    Past("load_route53_eip") =>
      /\ \A i \in DOMAIN r53eip.low_ttl.rows :
           \E z \in ZoneIds : r53eip.low_ttl.rows[i].ZoneId = S(z)
      /\ \A z \in ZoneIds :
           /\ Len(LowTtlFindings(z)) = Len(LowTtlRecords(z))
           /\ \A i \in DOMAIN LowTtlRecords(z) :
                /\ LowTtlFindings(z)[i].Name = LowTtlRecords(z)[i].f["Name"]
                /\ LowTtlFindings(z)[i].Type = LowTtlRecords(z)[i].f["Type"]
                /\ LowTtlFindings(z)[i].TTL = LowTtlRecords(z)[i].f["TTL"]
C11_Witness ==
    /\ Past("load_route53_eip")
    /\ \E i \in DOMAIN LowTtlFindings("Z1") :
         /\ LowTtlFindings("Z1")[i].Type = S("A")
         /\ LowTtlFindings("Z1")[i].TTL = PyInt(60)
    /\ FindingsFor("Z1", <<"192.0.2.1">>) # {}
    /\ Len(RecordSetsOf("Z1")) = 2
    /\ Len(LowTtlFindings("Z1")) = 1

\* the positional arrays of a legacy document in order: the elements of a
\* flat list, or of its nested lists
IsArrayOfArrays(v) == IsList(v) /\ v.items # <<>> /\ \A i \in DOMAIN v.items : IsList(v.items[i])
ArraysOf(doc) ==
    Concat([i \in 1..Len(doc.items) |->
              IF IsArrayOfArrays(doc.items[i]) THEN doc.items[i].items
              ELSE <<doc.items[i]>>])
IsLegacy(doc) == IsList(doc) /\ doc.items # <<>> /\ IsList(doc.items[1])
\* the arrays of the document with at least n fields
Kept(doc, n) == SelectSeq(ArraysOf(doc), LAMBDA a : Len(a.items) >= n)

\* C12: a legacy-shape inventory file, flat or nested one level, gives one
\* record per positional array with at least 5 fields (instances) or 7
\* fields (volumes), the fields taken by position; shorter arrays are
\* dropped without raising and the other records stay
C12_LegacyShapes ==
    /\ ~RaisedAt("load_ec2")
    /\ ~RaisedAt("load_ebs")
    /\ (Past("load_ec2") /\ IsLegacy(dir[F_ec2].v)) =>
         LET recs == Kept(dir[F_ec2].v, 5) IN
         /\ Len(ec2_df.rows) = Len(recs)
         /\ \A i \in DOMAIN recs :
              /\ ec2_df.rows[i]["InstanceId"] = recs[i].items[1]
              /\ ec2_df.rows[i]["InstanceType"] = recs[i].items[2]
              /\ ec2_df.rows[i]["State"] = recs[i].items[3]
              /\ ec2_df.rows[i]["AZ"] = recs[i].items[4]
              /\ ec2_df.rows[i]["LaunchTime"] = recs[i].items[5]
    /\ (Past("load_ebs") /\ IsLegacy(dir[F_ebs].v)) =>
         LET recs == Kept(dir[F_ebs].v, 7) IN
         /\ Len(ebs_df.rows) = Len(recs)
         /\ \A i \in DOMAIN recs :
              /\ ebs_df.rows[i]["VolumeId"] = recs[i].items[1]
              /\ ebs_df.rows[i]["Size"] = recs[i].items[2]
              /\ ebs_df.rows[i]["VolumeType"] = recs[i].items[3]
              /\ ebs_df.rows[i]["State"] = recs[i].items[4]
              /\ ebs_df.rows[i]["InstanceId"] = recs[i].items[5]
              /\ ebs_df.rows[i]["Encrypted"] = recs[i].items[6]
              /\ ebs_df.rows[i]["CreateTime"] = recs[i].items[7]


\* the instance objects of a modern-shape inventory, none for another shape
IsModern(doc) == IsList(doc) /\ doc.items # <<>> /\ IsDict(doc.items[1])
InstanceObjects == IF IsModern(dir[F_ec2].v) THEN dir[F_ec2].v.items ELSE <<>>
HasStateName(obj) ==
    "State" \in DOMAIN obj.f /\ IsDict(obj.f["State"]) /\ "Name" \in DOMAIN obj.f["State"].f
\* the object's state is "running", given as a string or as State.Name
IsRunningObject(obj) ==
    /\ "State" \in DOMAIN obj.f
    /\ \/ obj.f["State"] = S("running")
       \/ HasStateName(obj) /\ obj.f["State"].f["Name"] = S("running")
RunningObjects == SelectSeq(InstanceObjects, IsRunningObject)

\* C13: in a modern-shape inventory every record whose State is an object
\* with a Name has that Name as its state after load_ec2, wherever the
\* record stands and whatever the State of the first record is; the running
\* count and the rightsizing rows of build_report take every instance with
\* State.Name "running" as running
C13_StateUnwrapped ==
    /\ Past("load_ec2") =>
         \A i \in DOMAIN InstanceObjects :
           HasStateName(InstanceObjects[i]) =>
             /\ ec2_df.rows[i]["State"] = InstanceObjects[i].f["State"].f["Name"]
             /\ ec2m_df.rows[i]["State"] = InstanceObjects[i].f["State"].f["Name"]
    /\ (pc = "done" /\ IsModern(dir[F_ec2].v)
          /\ \A i \in DOMAIN InstanceObjects : "State" \in DOMAIN InstanceObjects[i].f) =>
         /\ insights.ec2_running = Len(RunningObjects)
         /\ Len(rs_rows) = Len(RunningObjects)
         /\ \A i \in DOMAIN RunningObjects :
              rs_rows[i].InstanceId = RunningObjects[i].f["InstanceId"]

====
